---- MODULE Spec2Model ----
(***************************************************************************)
(* A model of SwiftVec's scalar trait hierarchy (src/src/scalar/mod.rs)   *)
(* and of its 2D rectangle (src/src/rect/r2d.rs).                          *)
(*                                                                         *)
(* Every operation of the library is a pure function.  A behaviour of the  *)
(* model is one use of the library: a value is built (a rect by a          *)
(* constructor, or a scalar type by choosing the integer type and the      *)
(* build's overflow checks), then operations are applied to it; `call`     *)
(* holds the last call and its arguments and `ret` what it returned, a     *)
(* value or a panic.                                                       *)
(*                                                                         *)
(* Rect2<T> is modelled for T = the integers, over coordinates far from    *)
(* the limits of T.  The scalar operations are modelled for the bounded    *)
(* integer types, BitWidth bits wide, signed or unsigned, whose `+ - *`    *)
(* panic on overflow in a build with overflow checks and wrap in a build   *)
(* without them, and for the floating-point types where their arithmetic   *)
(* is exact.                                                               *)
(***************************************************************************)
EXTENDS Integers, Sequences, FiniteSets

VARIABLES
    pc,     \* "start", "built" (a rect is constructed), "typed" (a scalar type is chosen), "done"
    rect,   \* the Rect2 under use
    orig,   \* history: the rect as it was constructed
    pts,    \* history: the points passed to expand_to_include since, in order
    build,  \* the scalar type and the build: [kind, signed, overflow_checks]
    call,   \* the last call: [op, args]
    ret,    \* what the last call returned: [panic, val]
    trace   \* history: the time fractions the last call computed, in order

vars == <<pc, rect, orig, pts, build, call, ret, trace>>

----------------------------------------------------------------------------
(* Bounds of the model. *)

MaxCoord == 2       \* rect positions are drawn from -1..MaxCoord on each axis
MaxSize == 2        \* rect sizes are drawn from -1..MaxSize on each axis
MaxPoints == 3      \* encompass_points is given lists of 0..MaxPoints points
MaxIdx == 5         \* vertex is given indices 0..MaxIdx
MaxAmount == 2      \* grow_side is given amounts -1..MaxAmount
MaxPointCoord == 3  \* expand_to_include is given points of -1..MaxPointCoord
MaxCalls == 2       \* expand_to_include is chained at most MaxCalls times
BitWidth == 8       \* the integer types are BitWidth bits wide
MaxSmall == 2       \* scalars are drawn from -MaxSmall..MaxSmall and the type's limits
MaxKnot == 1        \* the key points of cubic_interpolate_in_time are drawn from 0..MaxKnot
MaxTime == 1        \* its times are drawn from -1..MaxTime

Coord == -1..MaxCoord
Size == -1..MaxSize
Amount == -1..MaxAmount
PointCoord == -1..MaxPointCoord

----------------------------------------------------------------------------
(* What a call returns: a value, or a panic with its message. *)

Ok(v) == [panic |-> FALSE, val |-> v]

Panicked(msg) == [panic |-> TRUE, val |-> msg]

NoCall == [op |-> "none", args |-> <<>>]

----------------------------------------------------------------------------
(* The vector collaborator, crate::vector::Vec2 (not part of src/). *)

Vec2(x, y) == [x |-> x, y |-> y]

Vec2Default == Vec2(0, 0)

VecAdd(a, b) == Vec2(a.x + b.x, a.y + b.y)

VecSub(a, b) == Vec2(a.x - b.x, a.y - b.y)

of_x(v) == Vec2(v.x, 0)

of_y(v) == Vec2(0, v.y)

on_x(amount) == Vec2(amount, 0)

on_y(amount) == Vec2(0, amount)

----------------------------------------------------------------------------
(* Scalar::min and Scalar::max, by explicit comparison. *)

min(self, other) == IF self < other THEN self ELSE other

max(self, other) == IF self > other THEN self ELSE other

(* Iterator::reduce(T::min) and Iterator::reduce(T::max) over the rest of a
   sequence whose head is acc: a left fold. *)
RECURSIVE reduce_min(_, _)
reduce_min(acc, s) ==
    IF s = <<>> THEN acc ELSE reduce_min(min(acc, Head(s)), Tail(s))

RECURSIVE reduce_max(_, _)
reduce_max(acc, s) ==
    IF s = <<>> THEN acc ELSE reduce_max(max(acc, Head(s)), Tail(s))

----------------------------------------------------------------------------
(* Rect2<T>: the tuple struct Rect2(position, size). *)

Rect2(position, size) == [position |-> position, size |-> size]

Rect2Default == Rect2(Vec2Default, Vec2Default)

new(position, size) == Rect2(position, size)

(* Rect::end, a default method of the Rect trait (not part of src/). *)
end(self) == VecAdd(self.position, self.size)

(* A slip: the far corner kept as the size. *)
from_offsets_ends(left, top, right, bottom) ==
    Rect2(Vec2(left, top), Vec2(right, bottom))

from_offsets(left, top, right, bottom) ==
    Rect2(Vec2(left, top), Vec2(right - left, bottom - top))

Xs(points) == [i \in 1..Len(points) |-> points[i].x]

Ys(points) == [i \in 1..Len(points) |-> points[i].y]

encompass_points(points) ==
    IF Len(points) = 0
    THEN Panicked("called Option::unwrap() on a None value")
    ELSE LET top    == reduce_min(Head(Ys(points)), Tail(Ys(points)))
             bottom == reduce_max(Head(Ys(points)), Tail(Ys(points)))
             left   == reduce_min(Head(Xs(points)), Tail(Xs(points)))
             right  == reduce_max(Head(Xs(points)), Tail(Xs(points)))
         IN  Ok(from_offsets(left, top, right, bottom))

(* A slip: the index taken modulo the four corners instead of refused. *)
vertex_wrapping(self, idx) ==
    CASE idx % 4 = 0 -> Ok(self.position)
      [] idx % 4 = 1 -> Ok(VecAdd(self.position, of_x(self.size)))
      [] idx % 4 = 2 -> Ok(VecAdd(self.position, self.size))
      [] idx % 4 = 3 -> Ok(VecAdd(self.position, of_y(self.size)))

vertex(self, idx) ==
    CASE idx = 0 -> Ok(self.position)
      [] idx = 1 -> Ok(VecAdd(self.position, of_x(self.size)))
      [] idx = 2 -> Ok(VecAdd(self.position, self.size))
      [] idx = 3 -> Ok(VecAdd(self.position, of_y(self.size)))
      [] OTHER   -> Panicked("Vertex index out of bounds.")

axis_length(self, axis) ==
    CASE axis = "X"    -> Ok(self.size.x)
      [] axis = "Y"    -> Ok(self.size.y)
      [] axis = "None" -> Panicked("Axis cannot be None.")

expand_to_include(self, point) ==
    LET origin0 == self.position
        end0    == end(self)
        origin1 == IF point.x < origin0.x THEN Vec2(point.x, origin0.y) ELSE origin0
        origin2 == IF point.y < origin1.y THEN Vec2(origin1.x, point.y) ELSE origin1
        end1    == IF point.x > end0.x THEN Vec2(point.x, end0.y) ELSE end0
        end2    == IF point.y > end1.y THEN Vec2(end1.x, point.y) ELSE end1
    IN  Rect2(origin2, end2)

(* A slip: Top and Left grow the size and leave the position where it was. *)
grow_side_size_only(self, side, amount) ==
    CASE side \in {"Top", "Bottom"} -> Rect2(self.position, VecAdd(self.size, on_y(amount)))
      [] side \in {"Left", "Right"} -> Rect2(self.position, VecAdd(self.size, on_x(amount)))

grow_side(self, side, amount) ==
    CASE side = "Top"    -> Rect2(VecSub(self.position, on_y(amount)), VecAdd(self.size, on_y(amount)))
      [] side = "Bottom" -> Rect2(self.position, VecAdd(self.size, on_y(amount)))
      [] side = "Left"   -> Rect2(VecSub(self.position, on_x(amount)), VecAdd(self.size, on_x(amount)))
      [] side = "Right"  -> Rect2(self.position, VecAdd(self.size, on_x(amount)))

(* A slip: the comparisons with borders used in both modes. *)
intersects_always_inclusive(self, other, including_borders) ==
    IF self.position.x > other.position.x + other.size.x THEN FALSE
    ELSE IF self.position.x + self.size.x < other.position.x THEN FALSE
    ELSE IF self.position.y > other.position.y + other.size.y THEN FALSE
    ELSE IF self.position.y + self.size.y < other.position.y THEN FALSE
    ELSE TRUE

intersects(self, other, including_borders) ==
    IF including_borders
    THEN IF self.position.x > other.position.x + other.size.x THEN FALSE
         ELSE IF self.position.x + self.size.x < other.position.x THEN FALSE
         ELSE IF self.position.y > other.position.y + other.size.y THEN FALSE
         ELSE IF self.position.y + self.size.y < other.position.y THEN FALSE
         ELSE TRUE
    ELSE IF self.position.x >= other.position.x + other.size.x THEN FALSE
         ELSE IF self.position.x + self.size.x <= other.position.x THEN FALSE
         ELSE IF self.position.y >= other.position.y + other.size.y THEN FALSE
         ELSE IF self.position.y + self.size.y <= other.position.y THEN FALSE
         ELSE TRUE

Side2 == {"Top", "Bottom", "Left", "Right"}

Axis2 == {"X", "Y", "None"}

----------------------------------------------------------------------------
(* The inputs the rect operations are given. *)

Positions == {Vec2(x, y) : x \in Coord, y \in Coord}

Sizes == {Vec2(w, h) : w \in Size, h \in Size}

Rects == {new(p, s) : p \in Positions, s \in Sizes}

Points == {Vec2(x, y) : x \in PointCoord, y \in PointCoord}

PointLists == UNION {[1..n -> Positions] : n \in 0..MaxPoints}

----------------------------------------------------------------------------
(* One use of a rect: construct it, then call one operation on it.  Each   *)
(* action draws the arguments of its call.                                 *)

Init ==
    /\ pc = "start"
    /\ rect = Rect2Default
    /\ orig = Rect2Default
    /\ pts = <<>>
    /\ build = [kind |-> "int", signed |-> TRUE, overflow_checks |-> TRUE]
    /\ call = NoCall
    /\ ret = Ok(Rect2Default)
    /\ trace = <<>>

New ==
    /\ pc = "start"
    /\ \E position \in Positions, size \in Sizes :
         /\ rect' = new(position, size)
         /\ call' = [op |-> "new", args |-> [position |-> position, size |-> size]]
    /\ pc' = "built"
    /\ orig' = rect'
    /\ ret' = Ok(rect')
    /\ UNCHANGED <<pts, build, trace>>

EncompassPoints ==
    /\ pc = "start"
    /\ \E points \in PointLists :
         /\ call' = [op |-> "encompass_points", args |-> [points |-> points]]
         /\ ret' = encompass_points(points)
    /\ pc' = "done"
    /\ rect' = IF ret'.panic THEN rect ELSE ret'.val
    /\ orig' = rect'
    /\ UNCHANGED <<pts, build, trace>>

Vertex ==
    /\ pc = "built"
    /\ \E idx \in 0..MaxIdx :
         /\ call' = [op |-> "vertex", args |-> [idx |-> idx]]
         /\ ret' = vertex(rect, idx)
    /\ pc' = "done"
    /\ UNCHANGED <<rect, orig, pts, build, trace>>

AxisLength ==
    /\ pc = "built"
    /\ \E axis \in Axis2 :
         /\ call' = [op |-> "axis_length", args |-> [axis |-> axis]]
         /\ ret' = axis_length(rect, axis)
    /\ pc' = "done"
    /\ UNCHANGED <<rect, orig, pts, build, trace>>

GrowSide ==
    /\ pc = "built"
    /\ \E side \in Side2, amount \in Amount :
         /\ call' = [op |-> "grow_side", args |-> [side |-> side, amount |-> amount]]
         /\ ret' = Ok(grow_side(rect, side, amount))
    /\ pc' = "done"
    /\ UNCHANGED <<rect, orig, pts, build, trace>>

Intersects ==
    /\ pc = "built"
    /\ \E other \in Rects, including_borders \in BOOLEAN :
         /\ call' = [op |-> "intersects",
                     args |-> [other |-> other, including_borders |-> including_borders]]
         /\ ret' = Ok(intersects(rect, other, including_borders))
    /\ pc' = "done"
    /\ UNCHANGED <<rect, orig, pts, build, trace>>

Next ==
    \/ New
    \/ EncompassPoints
    \/ Vertex
    \/ AxisLength
    \/ GrowSide
    \/ Intersects

Spec == Init /\ [][Next]_vars

----------------------------------------------------------------------------
(* A rect that is grown point by point: rect = rect.expand_to_include(p). *)

ExpandToInclude ==
    /\ pc = "built"
    /\ Len(pts) < MaxCalls
    /\ \E point \in Points :
         /\ call' = [op |-> "expand_to_include", args |-> [self |-> rect, point |-> point]]
         /\ ret' = Ok(expand_to_include(rect, point))
         /\ pts' = Append(pts, point)
    /\ rect' = ret'.val
    /\ UNCHANGED <<pc, orig, build, trace>>

NextChain ==
    \/ New
    \/ ExpandToInclude

SpecChain == Init /\ [][NextChain]_vars

----------------------------------------------------------------------------
(* The primitive types behind Scalar.                                      *)
(*                                                                         *)
(* The integer types are BitWidth bits wide, signed or unsigned: `+ - *`   *)
(* and unary `-` panic on overflow in a build with overflow checks and     *)
(* wrap without them; `/` truncates toward zero and panics on a zero       *)
(* divisor and on MIN / -1 in every build.  A value is an integer.         *)
(*                                                                         *)
(* The floating-point types are modelled where their arithmetic is exact:  *)
(* a value is a fraction n/d in lowest terms; rounding and overflow are    *)
(* not modelled.  No operation panics; a division by zero gives a value    *)
(* that is not finite (an infinity or NaN, written 0/0), and so does any   *)
(* operation on one.                                                       *)
(*                                                                         *)
(* An operand is what the expression before it returned: a panic passes    *)
(* through.                                                                *)

IsFloat == build.kind = "float"

MinValue == IF build.signed THEN -(2 ^ (BitWidth - 1)) ELSE 0

MaxValue == IF build.signed THEN 2 ^ (BitWidth - 1) - 1 ELSE 2 ^ BitWidth - 1

Fits(n) == MinValue <= n /\ n <= MaxValue

wrapping(n) ==
    IF build.signed
    THEN ((n + 2 ^ (BitWidth - 1)) % (2 ^ BitWidth)) - 2 ^ (BitWidth - 1)
    ELSE n % (2 ^ BitWidth)

arith(n, what) ==
    IF Fits(n) THEN Ok(n)
    ELSE IF build.overflow_checks THEN Panicked(what)
    ELSE Ok(wrapping(n))

Abs(n) == IF n < 0 THEN -n ELSE n

RECURSIVE Gcd(_, _)
Gcd(a, b) == IF b = 0 THEN a ELSE Gcd(b, a % b)

NotFinite == [n |-> 0, d |-> 0]

(* The fraction n/d, d # 0, in lowest terms with a positive denominator. *)
Frac(n, d) ==
    LET g == Gcd(Abs(n), Abs(d))
        s == IF d < 0 THEN -1 ELSE 1
    IN  [n |-> (s * n) \div g, d |-> Abs(d) \div g]

Finite(x) == x.d # 0

(* The scalar of the type under use whose value is the integer n. *)
num(n) == IF IsFloat THEN Frac(n, 1) ELSE n

add(a, b) ==
    IF a.panic THEN a ELSE IF b.panic THEN b
    ELSE IF IsFloat
         THEN Ok(IF Finite(a.val) /\ Finite(b.val)
                 THEN Frac(a.val.n * b.val.d + b.val.n * a.val.d, a.val.d * b.val.d)
                 ELSE NotFinite)
         ELSE arith(a.val + b.val, "attempt to add with overflow")

sub(a, b) ==
    IF a.panic THEN a ELSE IF b.panic THEN b
    ELSE IF IsFloat
         THEN Ok(IF Finite(a.val) /\ Finite(b.val)
                 THEN Frac(a.val.n * b.val.d - b.val.n * a.val.d, a.val.d * b.val.d)
                 ELSE NotFinite)
         ELSE arith(a.val - b.val, "attempt to subtract with overflow")

mul(a, b) ==
    IF a.panic THEN a ELSE IF b.panic THEN b
    ELSE IF IsFloat
         THEN Ok(IF Finite(a.val) /\ Finite(b.val)
                 THEN Frac(a.val.n * b.val.n, a.val.d * b.val.d)
                 ELSE NotFinite)
         ELSE arith(a.val * b.val, "attempt to multiply with overflow")

neg(a) ==
    IF a.panic THEN a
    ELSE IF IsFloat
         THEN Ok(IF Finite(a.val) THEN Frac(-a.val.n, a.val.d) ELSE NotFinite)
         ELSE arith(-a.val, "attempt to negate with overflow")

div(a, b) ==
    IF a.panic THEN a ELSE IF b.panic THEN b
    ELSE IF IsFloat
         THEN Ok(IF Finite(a.val) /\ Finite(b.val) /\ b.val.n # 0
                 THEN Frac(a.val.n * b.val.d, a.val.d * b.val.n)
                 ELSE NotFinite)
    ELSE IF b.val = 0 THEN Panicked("attempt to divide by zero")
    ELSE IF a.val = MinValue /\ b.val = -1 THEN Panicked("attempt to divide with overflow")
    ELSE IF (a.val < 0) = (b.val < 0)
         THEN Ok(Abs(a.val) \div Abs(b.val))
         ELSE Ok(-(Abs(a.val) \div Abs(b.val)))

zero == Ok(num(0))

one == Ok(num(1))

(* Self::from(x).unwrap() for a literal x given as the integer 2 * x: a
   float takes x as it is; into an integer type NumCast truncates toward
   zero, and gives None outside the type. *)
from(twice) ==
    IF IsFloat THEN Ok(Frac(twice, 2))
    ELSE LET n == IF twice < 0 THEN -(Abs(twice) \div 2) ELSE twice \div 2
         IN  IF Fits(n) THEN Ok(n)
             ELSE Panicked("called Option::unwrap() on a None value")

----------------------------------------------------------------------------
(* Scalar and SignedScalar. *)

(* A slip: bounded below first, then above. *)
clamp_below_first(self, min_, max_) == min(max(self, min_), max_)

clamp(self, min_, max_) == max(min(self, max_), min_)

(* A slip: the difference taken the other way round. *)
lerp_reversed(self, other, t) ==
    IF self.panic THEN self ELSE IF other.panic THEN other ELSE IF t.panic THEN t
    ELSE add(self, mul(sub(self, other), t))

lerp(self, other, t) ==
    IF self.panic THEN self ELSE IF other.panic THEN other ELSE IF t.panic THEN t
    ELSE add(self, mul(sub(other, self), t))

cubic_interpolate(self, terminal, pre_start, post_terminal, t) ==
    LET t_05 == from(1)
        t_2  == from(4)
        t_3  == from(6)
        t_4  == from(8)
        t_5  == from(10)
    IN  mul(t_05,
            add(add(add(mul(self, t_2),
                        mul(add(neg(pre_start), terminal), t)),
                    mul(sub(add(sub(mul(t_2, pre_start), mul(t_5, self)),
                                mul(t_4, terminal)),
                            post_terminal),
                        mul(t, t))),
                mul(add(sub(add(neg(pre_start), mul(t_3, self)), mul(t_3, terminal)),
                        post_terminal),
                    mul(mul(t, t), t))))

(* A slip: the division without its guard. *)
fraction_unguarded(delta, fallback, numerator, divisor) ==
    [divided |-> ~numerator.panic /\ ~divisor.panic,
     divisor |-> divisor,
     frac    |-> div(numerator, divisor)]

(* `if delta == t_0 { fallback } else { numerator / divisor }`: the fraction,
   with whether the division was executed and by what. *)
fraction(delta, fallback, numerator, divisor) ==
    IF delta.panic THEN [divided |-> FALSE, divisor |-> delta, frac |-> delta]
    ELSE IF delta = zero THEN [divided |-> FALSE, divisor |-> delta, frac |-> fallback]
    ELSE [divided |-> ~numerator.panic /\ ~divisor.panic,
          divisor |-> divisor,
          frac    |-> div(numerator, divisor)]

(* The six steps of cubic_interpolate_in_time in the order the code runs
   them: each with its fraction and the lerp it feeds. *)
time_steps(self, terminal, pre_start, post_terminal, t0, terminal_t, pre_start_t, post_terminal_t) ==
    LET t_0  == zero
        t_05 == from(1)
        t_1  == one
        t    == lerp(t_0, terminal_t, t0)
        f_a1 == fraction(pre_start_t, t_0, sub(t, pre_start_t), neg(pre_start_t))
        a1   == lerp(pre_start, self, f_a1.frac)
        f_a2 == fraction(terminal_t, t_05, t, terminal_t)
        a2   == lerp(self, terminal, f_a2.frac)
        f_a3 == fraction(sub(post_terminal_t, terminal_t), t_1,
                         sub(t, terminal_t), sub(post_terminal_t, terminal_t))
        a3   == lerp(terminal, post_terminal, f_a3.frac)
        f_b1 == fraction(sub(terminal_t, pre_start_t), t_0,
                         sub(t, pre_start_t), sub(terminal_t, pre_start_t))
        b1   == lerp(a1, a2, f_b1.frac)
        f_b2 == fraction(post_terminal_t, t_1, t, post_terminal_t)
        b2   == lerp(a2, a3, f_b2.frac)
        f_fn == fraction(terminal_t, t_05, t, terminal_t)
        fn   == lerp(b1, b2, f_fn.frac)
        step(term, f, out) ==
            [term |-> term, divided |-> f.divided, divisor |-> f.divisor,
             frac |-> f.frac, out |-> out]
    IN  <<step("t", [divided |-> FALSE, divisor |-> t_0, frac |-> t0], t),
          step("a1", f_a1, a1), step("a2", f_a2, a2), step("a3", f_a3, a3),
          step("b1", f_b1, b1), step("b2", f_b2, b2), step("final", f_fn, fn)>>

(* The steps that run: a panic ends the call. *)
RECURSIVE executed(_)
executed(steps) ==
    IF steps = <<>> THEN <<>>
    ELSE IF Head(steps).out.panic THEN <<Head(steps)>>
    ELSE <<Head(steps)>> \o executed(Tail(steps))

cubic_interpolate_in_time(self, terminal, pre_start, post_terminal, t0, terminal_t, pre_start_t, post_terminal_t) ==
    LET ran == executed(time_steps(self, terminal, pre_start, post_terminal,
                                   t0, terminal_t, pre_start_t, post_terminal_t))
    IN  ran[Len(ran)].out

----------------------------------------------------------------------------
(* One use of the scalars: choose the scalar type and the build, then call *)
(* one operation.                                                          *)

Small == (-MaxSmall)..MaxSmall

Samples ==
    IF IsFloat THEN Small
    ELSE {n \in Small \cup {MinValue, MinValue + 1, MaxValue - 1, MaxValue} : Fits(n)}

SmallSamples == IF IsFloat THEN Small ELSE {n \in Small : Fits(n)}

Knots == 0..MaxKnot

Times == -1..MaxTime

(* i8, u8, ... with and without overflow checks, and f32, f64. *)
Builds ==
    {[kind |-> "int", signed |-> sg, overflow_checks |-> oc] : sg \in BOOLEAN, oc \in BOOLEAN}
        \cup {[kind |-> "float", signed |-> TRUE, overflow_checks |-> FALSE]}

Instantiate ==
    /\ pc = "start"
    /\ build' \in Builds
    /\ pc' = "typed"
    /\ call' = [op |-> "instantiate", args |-> build']
    /\ UNCHANGED <<rect, orig, pts, ret, trace>>

Clamp ==
    /\ pc = "typed"
    /\ ~IsFloat
    /\ \E self \in Samples, min_ \in Samples, max_ \in Samples :
         /\ call' = [op |-> "clamp", args |-> [self |-> self, min |-> min_, max |-> max_]]
         /\ ret' = Ok(clamp(self, min_, max_))
    /\ pc' = "done"
    /\ UNCHANGED <<rect, orig, pts, build, trace>>

Lerp ==
    /\ pc = "typed"
    /\ \E self \in Samples, other \in Samples, t \in Samples :
         /\ call' = [op |-> "lerp", args |-> [self |-> self, other |-> other, t |-> t]]
         /\ ret' = lerp(Ok(num(self)), Ok(num(other)), Ok(num(t)))
    /\ pc' = "done"
    /\ UNCHANGED <<rect, orig, pts, build, trace>>

CubicInterpolate ==
    /\ pc = "typed"
    /\ build.signed
    /\ \E self \in SmallSamples, terminal \in SmallSamples, pre_start \in SmallSamples,
          post_terminal \in SmallSamples, t \in SmallSamples :
         /\ call' = [op |-> "cubic_interpolate",
                     args |-> [self |-> self, terminal |-> terminal, pre_start |-> pre_start,
                               post_terminal |-> post_terminal, t |-> t]]
         /\ ret' = cubic_interpolate(Ok(num(self)), Ok(num(terminal)), Ok(num(pre_start)),
                                     Ok(num(post_terminal)), Ok(num(t)))
    /\ pc' = "done"
    /\ UNCHANGED <<rect, orig, pts, build, trace>>

CubicInterpolateInTime ==
    /\ pc = "typed"
    /\ build.signed
    /\ \E self \in Knots, terminal \in Knots, pre_start \in Knots, post_terminal \in Knots,
          t0 \in Times, terminal_t \in Times, pre_start_t \in Times, post_terminal_t \in Times :
         /\ call' = [op |-> "cubic_interpolate_in_time",
                     args |-> [self |-> self, terminal |-> terminal, pre_start |-> pre_start,
                               post_terminal |-> post_terminal, t0 |-> t0,
                               terminal_t |-> terminal_t, pre_start_t |-> pre_start_t,
                               post_terminal_t |-> post_terminal_t]]
         /\ ret' = cubic_interpolate_in_time(Ok(num(self)), Ok(num(terminal)),
                       Ok(num(pre_start)), Ok(num(post_terminal)), Ok(num(t0)),
                       Ok(num(terminal_t)), Ok(num(pre_start_t)), Ok(num(post_terminal_t)))
         /\ trace' = executed(time_steps(Ok(num(self)), Ok(num(terminal)),
                       Ok(num(pre_start)), Ok(num(post_terminal)), Ok(num(t0)),
                       Ok(num(terminal_t)), Ok(num(pre_start_t)), Ok(num(post_terminal_t))))
    /\ pc' = "done"
    /\ UNCHANGED <<rect, orig, pts, build>>

NextScalar ==
    \/ Instantiate
    \/ Clamp
    \/ Lerp
    \/ CubicInterpolate
    \/ CubicInterpolateInTime

SpecScalar == Init /\ [][NextScalar]_vars

----------------------------------------------------------------------------
(* Properties of the rect operations. *)

SetMin(S) == CHOOSE m \in S : \A e \in S : m <= e

SetMax(S) == CHOOSE m \in S : \A e \in S : m >= e

NonNegative(v) == v.x >= 0 /\ v.y >= 0

(* The edges of a rect whose second field is read as a size. *)
LeftEdge(r) == r.position.x

RightEdge(r) == r.position.x + r.size.x

TopEdge(r) == r.position.y

BottomEdge(r) == r.position.y + r.size.y

(* p lies within [position, position + size] on both axes. *)
Covers(r, p) ==
    /\ LeftEdge(r) <= p.x /\ p.x <= RightEdge(r)
    /\ TopEdge(r) <= p.y /\ p.y <= BottomEdge(r)

(* C1: expand_to_include returns a rect whose position is the componentwise
   minimum of the rect's position and the point, and whose position + size is
   the componentwise maximum of the rect's end and the point. *)
ExpandToIncludeStoresSize ==
    call.op = "expand_to_include" =>
        LET r == call.args.self
            p == call.args.point
            out == ret.val
        IN  /\ out.position = Vec2(SetMin({LeftEdge(r), p.x}), SetMin({TopEdge(r), p.y}))
            /\ VecAdd(out.position, out.size)
                 = Vec2(SetMax({RightEdge(r), p.x}), SetMax({BottomEdge(r), p.y}))

(* What the code returns instead: the second field of the result is the
   componentwise maximum itself, the end point, not the size. *)
ExpandToIncludeStoresEnd ==
    call.op = "expand_to_include" =>
        LET r == call.args.self
            p == call.args.point
            out == ret.val
        IN  /\ out.position = Vec2(SetMin({LeftEdge(r), p.x}), SetMin({TopEdge(r), p.y}))
            /\ out.size = Vec2(SetMax({RightEdge(r), p.x}), SetMax({BottomEdge(r), p.y}))

(* C9: along a chain of expand_to_include calls that starts from a rect of
   non-negative size, every rect keeps a non-negative size and covers the
   original rect and every point passed so far, and expanding by a point the
   rect already covers returns the rect unchanged. *)
ExpandChainCovers ==
    (pc = "built" /\ NonNegative(orig.size)) =>
        /\ NonNegative(rect.size)
        /\ Covers(rect, orig.position)
        /\ Covers(rect, VecAdd(orig.position, orig.size))
        /\ \A i \in 1..Len(pts) : Covers(rect, pts[i])
        /\ (call.op = "expand_to_include" /\ Covers(call.args.self, call.args.point))
              => ret.val = call.args.self

(* C2: intersects returns true exactly when none of the four separations
   holds, edges that touch counting as intersecting with including_borders
   and not without.  For rects of non-negative size that is: with borders,
   the two closed rects share a point; for rects of positive size, without
   borders, the two open rects share a point (of the half-integer grid). *)
IntersectsIffNotSeparated ==
    (pc = "done" /\ call.op = "intersects") =>
        LET a == rect
            b == call.args.other
            separated ==
                IF call.args.including_borders
                THEN \/ RightEdge(a) < LeftEdge(b)
                     \/ LeftEdge(a) > RightEdge(b)
                     \/ BottomEdge(a) < TopEdge(b)
                     \/ TopEdge(a) > BottomEdge(b)
                ELSE \/ RightEdge(a) <= LeftEdge(b)
                     \/ LeftEdge(a) >= RightEdge(b)
                     \/ BottomEdge(a) <= TopEdge(b)
                     \/ TopEdge(a) >= BottomEdge(b)
            Grid == (2 * (-1) - 1)..(2 * (MaxCoord + MaxSize) + 1)
            shareClosed ==
                \E x \in Grid, y \in Grid :
                    /\ 2 * LeftEdge(a) <= x /\ x <= 2 * RightEdge(a)
                    /\ 2 * LeftEdge(b) <= x /\ x <= 2 * RightEdge(b)
                    /\ 2 * TopEdge(a) <= y /\ y <= 2 * BottomEdge(a)
                    /\ 2 * TopEdge(b) <= y /\ y <= 2 * BottomEdge(b)
            shareOpen ==
                \E x \in Grid, y \in Grid :
                    /\ 2 * LeftEdge(a) < x /\ x < 2 * RightEdge(a)
                    /\ 2 * LeftEdge(b) < x /\ x < 2 * RightEdge(b)
                    /\ 2 * TopEdge(a) < y /\ y < 2 * BottomEdge(a)
                    /\ 2 * TopEdge(b) < y /\ y < 2 * BottomEdge(b)
        IN  /\ ret.val = ~separated
            /\ (call.args.including_borders /\ NonNegative(a.size) /\ NonNegative(b.size))
                  => (ret.val = shareClosed)
            /\ (~call.args.including_borders
                  /\ a.size.x > 0 /\ a.size.y > 0 /\ b.size.x > 0 /\ b.size.y > 0)
                  => (ret.val = shareOpen)

(* (0,0,2,2) and (2,0,2,2) touch at x = 2: without borders they do not intersect. *)
IntersectsTouchingWitness ==
    /\ pc = "done" /\ call.op = "intersects"
    /\ rect = Rect2(Vec2(0, 0), Vec2(2, 2))
    /\ call.args.other = Rect2(Vec2(2, 0), Vec2(2, 2))
    /\ ~call.args.including_borders
    /\ ret.val = FALSE

(* C3: encompass_points of a non-empty list returns the tight bounding box:
   position = (min x, min y) and position + size = (max x, max y) over the
   points, whatever their order. *)
EncompassPointsIsTightBox ==
    (call.op = "encompass_points" /\ Len(call.args.points) > 0) =>
        LET points == call.args.points
            xs == {points[i].x : i \in 1..Len(points)}
            ys == {points[i].y : i \in 1..Len(points)}
        IN  /\ ~ret.panic
            /\ ret.val.position = Vec2(SetMin(xs), SetMin(ys))
            /\ VecAdd(ret.val.position, ret.val.size) = Vec2(SetMax(xs), SetMax(ys))
            /\ rect = ret.val

(* Three points, the extremes of x and y on different points, none first. *)
EncompassPointsWitness ==
    /\ call.op = "encompass_points"
    /\ call.args.points = <<Vec2(0, 1), Vec2(2, -1), Vec2(-1, 2)>>
    /\ ret = Ok(Rect2(Vec2(-1, -1), Vec2(3, 3)))

(* C4: grow_side moves the named edge by the amount and leaves the opposite
   edge and the other axis as they were. *)
GrowSideMovesOneEdge ==
    (pc = "done" /\ call.op = "grow_side") =>
        LET r == rect
            a == call.args.amount
            side == call.args.side
            out == ret.val
        IN  /\ side = "Top" =>
                /\ out.position = Vec2(r.position.x, r.position.y - a)
                /\ out.size = Vec2(r.size.x, r.size.y + a)
                /\ BottomEdge(out) = BottomEdge(r)
            /\ side = "Bottom" =>
                /\ out.position = r.position
                /\ out.size = Vec2(r.size.x, r.size.y + a)
            /\ side = "Left" =>
                /\ out.position = Vec2(r.position.x - a, r.position.y)
                /\ out.size = Vec2(r.size.x + a, r.size.y)
                /\ RightEdge(out) = RightEdge(r)
            /\ side = "Right" =>
                /\ out.position = r.position
                /\ out.size = Vec2(r.size.x + a, r.size.y)

(* grow_side(Top, 1) on (0,0,2,2) yields origin (0,-1), size (2,3). *)
GrowSideTopWitness ==
    /\ pc = "done" /\ call.op = "grow_side"
    /\ rect = Rect2(Vec2(0, 0), Vec2(2, 2))
    /\ call.args = [side |-> "Top", amount |-> 1]
    /\ ret = Ok(Rect2(Vec2(0, -1), Vec2(2, 3)))

(* C5: vertex panics exactly for an index outside {0,1,2,3} and otherwise
   returns a corner of the rect, axis_length panics exactly for Axis2::None,
   and encompass_points panics exactly for an empty list. *)
LogicErrorsPanic ==
    /\ (pc = "done" /\ call.op = "vertex") =>
          /\ ret.panic <=> call.args.idx \notin {0, 1, 2, 3}
          /\ ~ret.panic =>
                ret.val \in {Vec2(x, y) : x \in {LeftEdge(rect), RightEdge(rect)},
                                          y \in {TopEdge(rect), BottomEdge(rect)}}
    /\ (pc = "done" /\ call.op = "axis_length") =>
          /\ ret.panic <=> call.args.axis = "None"
          /\ ~ret.panic => ret.val \in {rect.size.x, rect.size.y}
    /\ (pc = "done" /\ call.op = "encompass_points") =>
          (ret.panic <=> call.args.points = <<>>)

(* vertex(4) panics. *)
VertexPanicWitness ==
    /\ pc = "done" /\ call.op = "vertex"
    /\ call.args.idx = 4
    /\ ret = Panicked("Vertex index out of bounds.")

----------------------------------------------------------------------------
(* Properties of the scalar operations. *)

(* C6: when lo <= hi, clamp(v, lo, hi) lies in [lo, hi] and is v when v
   already does; when lo > hi, clamp(v, lo, hi) is lo for every v. *)
ClampWithinBounds ==
    (pc = "done" /\ call.op = "clamp") =>
        LET v  == call.args.self
            lo == call.args.min
            hi == call.args.max
        IN  /\ ~ret.panic
            /\ lo <= hi =>
                /\ lo <= ret.val /\ ret.val <= hi
                /\ (lo <= v /\ v <= hi) => ret.val = v
            /\ lo > hi => ret.val = lo

(* Inverted bounds, the value above both: the result is lo. *)
ClampInvertedWitness ==
    /\ pc = "done" /\ call.op = "clamp"
    /\ call.args = [self |-> 2, min |-> 1, max |-> -1]
    /\ ret = Ok(1)

(* C7: in a bounded integer type a.lerp(b, 0) = a and a.lerp(b, 1) = b for
   all a and b, those whose difference b - a does not fit the type included. *)
LerpEndpoints ==
    (pc = "done" /\ call.op = "lerp" /\ ~IsFloat) =>
        /\ call.args.t = 0 => ret = Ok(call.args.self)
        /\ call.args.t = 1 => ret = Ok(call.args.other)

(* C7 as amended: a.lerp(b, 0) = a and a.lerp(b, 1) = b whenever b - a fits
   the type or the build wraps on overflow; in a build with overflow checks,
   a pair whose difference b - a does not fit makes lerp panic in the
   subtraction. *)
LerpEndpointsUnlessOverflowPanics ==
    (pc = "done" /\ call.op = "lerp" /\ ~IsFloat /\ call.args.t \in {0, 1}) =>
        IF build.overflow_checks /\ ~Fits(call.args.other - call.args.self)
        THEN ret = Panicked("attempt to subtract with overflow")
        ELSE ret = Ok(IF call.args.t = 0 THEN call.args.self ELSE call.args.other)

(* A difference that does not fit, in a build that wraps: lerp(a, b, 1) = b. *)
LerpWrappingWitness ==
    /\ pc = "done" /\ call.op = "lerp" /\ ~IsFloat
    /\ ~build.overflow_checks
    /\ ~Fits(call.args.other - call.args.self)
    /\ call.args.t = 1
    /\ ret = Ok(call.args.other)

(* The time delta each fraction of cubic_interpolate_in_time tests, from
   the arguments of the call. *)
TimeDelta(term, args) ==
    CASE term = "a1"    -> args.pre_start_t
      [] term = "a2"    -> args.terminal_t
      [] term = "a3"    -> args.post_terminal_t - args.terminal_t
      [] term = "b1"    -> args.terminal_t - args.pre_start_t
      [] term = "b2"    -> args.post_terminal_t
      [] term = "final" -> args.terminal_t

(* 0.5 in the type under use: a half, which NumCast truncates to 0 in an
   integer type. *)
Half == IF IsFloat THEN [n |-> 1, d |-> 2] ELSE 0

(* The fixed fraction each term falls back to. *)
Fallback(term) ==
    CASE term \in {"a1", "b1"}    -> num(0)
      [] term \in {"a2", "final"} -> Half
      [] term \in {"a3", "b2"}    -> num(1)

(* C8: cubic_interpolate_in_time never divides by zero: each of its six
   divisions is executed only when its divisor is not zero, and otherwise
   the term's fixed fallback fraction is used. *)
TimeDivisionsGuarded ==
    (pc = "done" /\ call.op = "cubic_interpolate_in_time") =>
        /\ ret # Panicked("attempt to divide by zero")
        /\ ~ret.panic => Len(trace) = 7
        /\ \A i \in 2..Len(trace) :
              LET s == trace[i]
              IN  /\ s.divided <=> TimeDelta(s.term, call.args) # 0
                  /\ s.divided =>
                        /\ ~s.divisor.panic
                        /\ s.divisor.val # num(0)
                        /\ IsFloat => Finite(s.frac.val)
                  /\ ~s.divided => s.frac = Ok(Fallback(s.term))

(* All three times equal and not zero: a1, a2, b2 and the final blend
   divide, a3 and b1 fall back. *)
TimeDivisionsWitness ==
    /\ pc = "done" /\ call.op = "cubic_interpolate_in_time"
    /\ call.args.terminal_t = 1 /\ call.args.pre_start_t = 1 /\ call.args.post_terminal_t = 1
    /\ ~ret.panic
    /\ Len(trace) = 7
    /\ trace[2].divided /\ trace[3].divided /\ trace[6].divided /\ trace[7].divided
    /\ ~trace[4].divided /\ trace[4].frac = one
    /\ ~trace[5].divided /\ trace[5].frac = zero

(* C10: in a signed integer type, for values small enough that nothing
   overflows, cubic_interpolate passes through its key points:
   it is self at t = 0 and terminal at t = 1. *)
CubicInterpolateThroughKeyPoints ==
    (pc = "done" /\ call.op = "cubic_interpolate" /\ ~IsFloat /\ build.signed) =>
        /\ call.args.t = 0 => ret = Ok(call.args.self)
        /\ call.args.t = 1 => ret = Ok(call.args.terminal)

(* What the code returns instead: in an integer type the cast of 0.5 is 0,
   and the product is 0 whatever the arguments (or the call panics on an
   overflow); in a floating-point type the curve passes through its key
   points. *)
CubicInterpolateIntegerIsZero ==
    (pc = "done" /\ call.op = "cubic_interpolate") =>
        IF IsFloat
        THEN /\ call.args.t = 0 => ret = Ok(num(call.args.self))
             /\ call.args.t = 1 => ret = Ok(num(call.args.terminal))
        ELSE ret.panic \/ ret = Ok(0)

====
